---- MODULE Spec2Model ----
(***************************************************************************)
(* Lane tag parsing (python/lanes/core.py): the vocabulary enumerations,   *)
(* Lane.from_structure and Road.parse, as a state machine over one Road    *)
(* whose parse method is invoked repeatedly and one structure handed to    *)
(* Lane.from_structure.                                                    *)
(*                                                                         *)
(* Texts that the code only compares for equality (oneway, sidewalk,       *)
(* cycleway:left, cycleway:right, the structure's fields) are TLA+         *)
(* strings.  The text of the lanes tag is converted by int(), so it is a   *)
(* sequence of one-character strings and int() is computed character by    *)
(* character.                                                              *)
(***************************************************************************)
EXTENDS Integers, Sequences, FiniteSets, TLC

\* ------------------------------------------------------------------ bounds
\* Longest text of the lanes tag.
MaxLen == 3
\* Most parse invocations on one Road.
MaxCalls == 2

\* ------------------------------------------------------------ vocabulary
\* class Direction(Enum): member name and value.
Direction == { [name |-> "FORWARD", value |-> "forward"],
               [name |-> "BACKWARD", value |-> "backward"] }

\* class LaneType(Enum): member name and value.
LaneType == { [name |-> "SIDEWALK", value |-> "sidewalk"],
              [name |-> "CYCLEWAY", value |-> "cycleway"],
              [name |-> "DRIVEWAY", value |-> "driveway"] }

\* @dataclass Lane(type_, direction); the fields hold the members' names.
Lane(type_, direction) == [type_ |-> type_, direction |-> direction]

\* What a call does: return a value or raise an exception.  `at` is the
\* callable that raised.
Return(value) == [kind |-> "return", value |-> value]
Raise(exc, at) == [kind |-> "raise", exc |-> exc, at |-> at]
NotCalled == [kind |-> "none"]

\* Enum lookup by value, Enum(text): the member with that value, else
\* ValueError.
EnumByValue(enum, text, at) ==
    IF \E m \in enum : m.value = text
    THEN Return((CHOOSE m \in enum : m.value = text).name)
    ELSE Raise("ValueError", at)

\* LaneType(text) and Direction(text).
LaneTypeOf(text) == EnumByValue(LaneType, text, "LaneType")

\* Direction lookup that falls back to FORWARD instead of raising.
DirectionOrForward(text) ==
    IF \E m \in Direction : m.value = text
    THEN Return((CHOOSE m \in Direction : m.value = text).name)
    ELSE Return("FORWARD")

DirectionOf(text) == EnumByValue(Direction, text, "Direction")

\* Lane.from_structure: cls(LaneType(structure["type"]),
\* Direction(structure["direction"])); the arguments are evaluated left to
\* right and the first exception propagates.
from_structure(structure) ==
    LET t == LaneTypeOf(structure["type"])
        d == DirectionOf(structure["direction"])
    IN  IF t.kind = "raise" THEN t
        ELSE IF d.kind = "raise" THEN d
        ELSE Return(Lane(t.value, d.value))

\* ----------------------------------------------------------------- int()
Digits == <<"0", "1", "2", "3", "4", "5", "6", "7", "8", "9">>
IsDigit(c) == \E i \in 1..Len(Digits) : Digits[i] = c
DigitValue(c) == (CHOOSE i \in 1..Len(Digits) : Digits[i] = c) - 1
IsSpace(c) == c = " "

\* str.strip() as int() applies it: whitespace off both ends.
RECURSIVE LStrip(_)
LStrip(s) == IF s # <<>> /\ IsSpace(Head(s)) THEN LStrip(Tail(s)) ELSE s
RECURSIVE RStrip(_)
RStrip(s) ==
    IF s # <<>> /\ IsSpace(s[Len(s)]) THEN RStrip(SubSeq(s, 1, Len(s) - 1)) ELSE s
Strip(s) == RStrip(LStrip(s))

\* The digits part of an integer literal: digits with single underscores
\* between them.
WellFormedDigits(s) ==
    /\ s # <<>>
    /\ \A i \in 1..Len(s) : IsDigit(s[i]) \/ s[i] = "_"
    /\ IsDigit(s[1]) /\ IsDigit(s[Len(s)])
    /\ \A i \in 1..(Len(s) - 1) : ~(s[i] = "_" /\ s[i + 1] = "_")

\* Base-10 value of the digits of s, underscores skipped.
RECURSIVE DigitsValue(_, _)
DigitsValue(s, acc) ==
    IF s = <<>> THEN acc
    ELSE IF Head(s) = "_" THEN DigitsValue(Tail(s), acc)
    ELSE DigitsValue(Tail(s), 10 * acc + DigitValue(Head(s)))

\* int() that answers 0 for a text it cannot convert.
PyIntOrZero(s) ==
    LET t == Strip(s)
        signed == t # <<>> /\ Head(t) \in {"+", "-"}
        body == IF signed THEN Tail(t) ELSE t
    IN  IF WellFormedDigits(body)
        THEN Return(IF signed /\ Head(t) = "-"
                    THEN 0 - DigitsValue(body, 0) ELSE DigitsValue(body, 0))
        ELSE Return(0)

\* int(text): surrounding whitespace stripped, an optional sign, then the
\* digits; ValueError for anything else.
PyInt(s) ==
    LET t == Strip(s)
        signed == t # <<>> /\ Head(t) \in {"+", "-"}
        body == IF signed THEN Tail(t) ELSE t
    IN  IF WellFormedDigits(body)
        THEN Return(IF signed /\ Head(t) = "-"
                    THEN 0 - DigitsValue(body, 0) ELSE DigitsValue(body, 0))
        ELSE Raise("ValueError", "int")

\* list * n: n copies, the empty list for n <= 0.
ListTimes(x, n) == IF n <= 0 THEN <<>> ELSE [i \in 1..n |-> x]

\* ------------------------------------------------------------- Road.parse
\* self.tags.get(key) == text
TagEquals(tags, key, text) == key \in DOMAIN tags /\ tags[key] = text

\* The driveway rule without the multiplication by the lane count.
main_lanes_single(tags) ==
    IF "lanes" \in DOMAIN tags /\ TagEquals(tags, "oneway", "yes")
    THEN LET n == PyInt(tags["lanes"])
         IN  IF n.kind = "raise" THEN n
             ELSE Return(<<Lane("DRIVEWAY", "FORWARD")>>)
    ELSE Return(<<>>)

\* The driveway rule without the oneway test.
main_lanes_any_way(tags) ==
    IF "lanes" \in DOMAIN tags
    THEN LET n == PyInt(tags["lanes"])
         IN  IF n.kind = "raise" THEN n
             ELSE Return(ListTimes(Lane("DRIVEWAY", "FORWARD"), n.value))
    ELSE Return(<<>>)

\* main_lanes: [] unless "lanes" in self.tags and oneway is "yes"; then
\* [Lane(DRIVEWAY, FORWARD)] * int(self.tags["lanes"]), or the exception
\* int() raises.
main_lanes(tags) ==
    IF "lanes" \in DOMAIN tags /\ TagEquals(tags, "oneway", "yes")
    THEN LET n == PyInt(tags["lanes"])
         IN  IF n.kind = "raise" THEN n
             ELSE Return(ListTimes(Lane("DRIVEWAY", "FORWARD"), n.value))
    ELSE Return(<<>>)

\* A left sidewalk for sidewalk = "left" as well.
sidewalks_left_on_left(tags) ==
    IF TagEquals(tags, "sidewalk", "both") \/ TagEquals(tags, "sidewalk", "left")
    THEN <<Lane("SIDEWALK", "BACKWARD")>> ELSE <<>>

sidewalks_left(tags) ==
    IF TagEquals(tags, "sidewalk", "both")
    THEN <<Lane("SIDEWALK", "BACKWARD")>> ELSE <<>>

\* A right sidewalk with the direction of the left one.
sidewalks_right_backward(tags) ==
    IF TagEquals(tags, "sidewalk", "both")
    THEN <<Lane("SIDEWALK", "BACKWARD")>> ELSE <<>>

sidewalks_right(tags) ==
    IF TagEquals(tags, "sidewalk", "both")
    THEN <<Lane("SIDEWALK", "FORWARD")>> ELSE <<>>

cycleway_left(tags) ==
    IF TagEquals(tags, "cycleway:left", "lane")
    THEN <<Lane("CYCLEWAY", "FORWARD")>> ELSE <<>>

\* The right cycleway as the mirror of the left one.
cycleway_right_mirrored(tags) ==
    IF TagEquals(tags, "cycleway:right", "lane")
    THEN <<Lane("CYCLEWAY", "FORWARD")>> ELSE <<>>

\* cycleway_right is initialised to [] and never assigned again.
cycleway_right(tags) == <<>>

\* The concatenation with the driveway before the left cycleway.
parse_main_first(tags) ==
    LET m == main_lanes(tags)
    IN  IF m.kind = "raise" THEN m
        ELSE Return(sidewalks_left(tags) \o m.value \o cycleway_left(tags)
                      \o cycleway_right(tags) \o sidewalks_right(tags))

\* Road.parse: the exception of int(), raised before any other tag is
\* read, or the five lists concatenated.
parse(tags) ==
    LET m == main_lanes(tags)
    IN  IF m.kind = "raise" THEN m
        ELSE Return(sidewalks_left(tags) \o cycleway_left(tags) \o m.value
                      \o cycleway_right(tags) \o sidewalks_right(tags))

\* tags without key
Drop(tags, key) == [k \in DOMAIN tags \ {key} |-> tags[k]]

\* A parse that consumes the lanes tag (pop instead of a subscript).
TagsAfterPop(tags) == Drop(tags, "lanes")

\* self.tags after parse: the method only reads it.
TagsAfterParse(tags) == tags

\* ---------------------------------------------------------------- inputs
\* Characters of the lanes text: digits, signs, the digit separator,
\* whitespace and a letter.
Alphabet == {"0", "1", "2", "-", "+", "_", " ", "a"}

RECURSIVE TextsOfLen(_)
TextsOfLen(n) ==
    IF n = 0 THEN {<<>>}
    ELSE {Append(s, c) : s \in TextsOfLen(n - 1), c \in Alphabet}

LanesTexts == UNION {TextsOfLen(n) : n \in 0..MaxLen}
OnewayTexts == {"yes", "no"}
SidewalkTexts == {"both", "left"}
CyclewayLeftTexts == {"lane", "track"}
CyclewayRightTexts == {"lane"}

\* The mappings that have key absent or bound to one of texts.
Optional(key, texts) == {<<>>} \cup {key :> v : v \in texts}

Roads ==
    {l @@ o @@ s @@ cl @@ cr :
        l \in Optional("lanes", LanesTexts),
        o \in Optional("oneway", OnewayTexts),
        s \in Optional("sidewalk", SidewalkTexts),
        cl \in Optional("cycleway:left", CyclewayLeftTexts),
        cr \in Optional("cycleway:right", CyclewayRightTexts)}

TypeTexts == {"sidewalk", "cycleway", "driveway", "SIDEWALK", "Sidewalk",
              "parking", "forward", "lane", "driveway ", ""}
DirectionTexts == {"forward", "backward", "FORWARD", "Backward", "both",
                   "left", "right", "sidewalk", "forward ", ""}
Structures == {("type" :> t) @@ ("direction" :> d) :
                  t \in TypeTexts, d \in DirectionTexts}

\* ----------------------------------------------------------------- state
VARIABLES
    tags,       \* Road.tags
    original,   \* Road.tags as constructed
    calls,      \* parse invocations so far
    first,      \* outcome of the first parse invocation
    last,       \* outcome of the latest parse invocation
    structure,  \* the argument of Lane.from_structure
    built       \* outcome of Lane.from_structure

vars == <<tags, original, calls, first, last, structure, built>>

NoStructure == ("type" :> "") @@ ("direction" :> "")

\* A Road constructed from any tag mapping, not yet parsed.
Init ==
    /\ tags \in Roads
    /\ original = tags
    /\ calls = 0
    /\ first = NotCalled
    /\ last = NotCalled
    /\ structure = NoStructure
    /\ built = NotCalled

\* One invocation of Road.parse.
Parse ==
    /\ calls < MaxCalls
    /\ last' = parse(tags)
    /\ first' = IF calls = 0 THEN parse(tags) ELSE first
    /\ tags' = TagsAfterParse(tags)
    /\ calls' = calls + 1
    /\ UNCHANGED <<original, structure, built>>

Next == Parse

Spec == Init /\ [][Next]_vars

\* A structure of two texts, and no Road.
LaneInit ==
    /\ structure \in Structures
    /\ built = NotCalled
    /\ tags = <<>>
    /\ original = <<>>
    /\ calls = 0
    /\ first = NotCalled
    /\ last = NotCalled

\* Lane.from_structure(structure).
FromStructure ==
    /\ built = NotCalled
    /\ built' = from_structure(structure)
    /\ UNCHANGED <<tags, original, calls, first, last, structure>>

LaneNext == FromStructure

LaneSpec == LaneInit /\ [][LaneNext]_vars

\* ---------------------------------------------------------------- claims
Called == calls > 0
Returned == Called /\ last.kind = "return"
Raised == Called /\ last.kind = "raise"
Has(key) == key \in DOMAIN tags
Is(key, text) == Has(key) /\ tags[key] = text

\* Positions of the lanes of one type, and their number.
Positions(lanes, type_) == {i \in 1..Len(lanes) : lanes[i].type_ = type_}
Count(lanes, type_) == Cardinality(Positions(lanes, type_))

\* The decimal text of a natural number, str(n).
RECURSIVE DecimalText(_)
DecimalText(n) ==
    IF n < 10 THEN <<Digits[n + 1]>>
    ELSE Append(DecimalText(n \div 10), Digits[(n % 10) + 1])

\* s is the decimal text of some natural number: digits only, no leading
\* zero except for "0" itself.
IsDecimalText(s) ==
    /\ s # <<>>
    /\ \A i \in 1..Len(s) : s[i] \in {"0", "1", "2", "3", "4", "5", "6", "7", "8", "9"}
    /\ Len(s) > 1 => s[1] # "0"

\* s is the text of a negative integer: a minus sign, then the decimal text
\* of a positive number.
IsNegativeText(s) ==
    /\ Len(s) >= 2
    /\ s[1] = "-"
    /\ IsDecimalText(Tail(s))
    /\ Tail(s) # <<"0">>

\* s is integer text: inside optional surrounding whitespace, an optional
\* sign followed by digits, where an underscore may stand between two digits.
IsIntegerText(s) ==
    \E i \in 0..Len(s) : \E j \in i..Len(s) :
        /\ \A k \in 1..i : s[k] = " "
        /\ \A k \in (j + 1)..Len(s) : s[k] = " "
        /\ \E b \in (i + 1)..j :
              /\ b > i + 1 => (b = i + 2 /\ s[i + 1] \in {"+", "-"})
              /\ \A k \in b..j :
                    \/ IsDigit(s[k])
                    \/ /\ s[k] = "_"
                       /\ k > b /\ k < j
                       /\ IsDigit(s[k - 1]) /\ IsDigit(s[k + 1])

SidewalkBackward == Lane("SIDEWALK", "BACKWARD")
SidewalkForward == Lane("SIDEWALK", "FORWARD")
CyclewayForward == Lane("CYCLEWAY", "FORWARD")
DrivewayForward == Lane("DRIVEWAY", "FORWARD")

\* C1: a returned sequence is the left sidewalk list, the left cycleway
\* list, the driveway list, the (empty) right cycleway list and the right
\* sidewalk list, in this order; with sidewalk = "both", cycleway:left =
\* "lane", oneway = "yes" and lanes the text of n it is [SIDEWALK/BACKWARD,
\* CYCLEWAY/FORWARD, n x DRIVEWAY/FORWARD, SIDEWALK/FORWARD]; no cycleway
\* lane follows a driveway lane and the FORWARD sidewalk precedes no
\* driveway or cycleway lane.
C1_AssemblyOrder ==
    Returned =>
        LET lanes == last.value
            n == Count(lanes, "DRIVEWAY")
        IN  /\ lanes =
                  (IF Is("sidewalk", "both") THEN <<SidewalkBackward>> ELSE <<>>)
                  \o (IF Is("cycleway:left", "lane") THEN <<CyclewayForward>> ELSE <<>>)
                  \o [i \in 1..n |-> DrivewayForward]
                  \o (IF Is("sidewalk", "both") THEN <<SidewalkForward>> ELSE <<>>)
            /\ ( /\ Is("sidewalk", "both") /\ Is("cycleway:left", "lane")
                 /\ Is("oneway", "yes") /\ Has("lanes")
                 /\ IsDecimalText(tags["lanes"]) )
               => /\ DecimalText(n) = tags["lanes"]
                  /\ lanes = <<SidewalkBackward, CyclewayForward>>
                               \o [i \in 1..n |-> DrivewayForward]
                               \o <<SidewalkForward>>
            /\ \A j \in Positions(lanes, "CYCLEWAY") :
                  \A i \in 1..(j - 1) : lanes[i].type_ # "DRIVEWAY"
            /\ \A i \in 1..Len(lanes) :
                  lanes[i] = SidewalkForward
                      => \A j \in (i + 1)..Len(lanes) :
                            lanes[j].type_ \notin {"DRIVEWAY", "CYCLEWAY"}

C1_Witness ==
    /\ Returned
    /\ Is("sidewalk", "both") /\ Is("cycleway:left", "lane") /\ Is("oneway", "yes")
    /\ Has("lanes") /\ tags["lanes"] = <<"2">>
    /\ Len(last.value) = 5

\* C2: with oneway = "yes" and lanes the decimal text of n >= 0, whatever
\* the other tags, parse returns a sequence with exactly n DRIVEWAY lanes,
\* all FORWARD and contiguous (at most one of them is not followed by
\* another).
C2_DrivewayCount ==
    (Called /\ Is("oneway", "yes") /\ Has("lanes") /\ IsDecimalText(tags["lanes"]))
        => /\ last.kind = "return"
           /\ LET lanes == last.value
                  at == Positions(lanes, "DRIVEWAY")
              IN  /\ DecimalText(Cardinality(at)) = tags["lanes"]
                  /\ \A i \in at : lanes[i].direction = "FORWARD"
                  /\ Cardinality({i \in at : i = Len(lanes)
                                               \/ lanes[i + 1].type_ # "DRIVEWAY"}) <= 1

C2_Witness ==
    /\ Returned /\ Is("oneway", "yes") /\ Has("lanes")
    /\ tags["lanes"] = <<"1", "2">>
    /\ Is("sidewalk", "both")
    /\ Count(last.value, "DRIVEWAY") = 12

\* C3: with oneway = "yes" and lanes present but not integer text, parse
\* raises the invalid-lane-count error (the ValueError of int()) and returns
\* no sequence.
C3_InvalidLaneCount ==
    (Called /\ Is("oneway", "yes") /\ Has("lanes") /\ ~IsIntegerText(tags["lanes"]))
        => last = Raise("ValueError", "int")

C3_Witness ==
    /\ Raised /\ Is("oneway", "yes") /\ Is("sidewalk", "both")
    /\ Has("lanes") /\ tags["lanes"] = <<"a", "a", "a">>

C3_WitnessEmpty ==
    /\ Raised /\ Is("oneway", "yes") /\ Has("lanes") /\ tags["lanes"] = <<>>

\* C4: with oneway = "yes" and lanes the text of a negative integer, parse
\* raises an error instead of returning a sequence.
C4_NegativeLaneCountRaises ==
    (Called /\ Is("oneway", "yes") /\ Has("lanes") /\ IsNegativeText(tags["lanes"]))
        => last.kind = "raise"

\* C5: when lanes is absent, or oneway is absent or not "yes", parse does
\* not fail and returns no DRIVEWAY lane, whatever the value of lanes.
C5_RuleNotTriggered ==
    (Called /\ ~(Has("lanes") /\ Is("oneway", "yes")))
        => /\ last.kind = "return"
           /\ Count(last.value, "DRIVEWAY") = 0

C5_Witness ==
    /\ Returned /\ Is("oneway", "no")
    /\ Has("lanes") /\ tags["lanes"] = <<"a">>

\* C6: a returned sequence has, for sidewalk = "both", exactly two SIDEWALK
\* lanes, a BACKWARD one first in the sequence and a FORWARD one last in
\* it; for any other or no value of sidewalk it has none.
C6_Sidewalks ==
    Returned =>
        LET lanes == last.value
        IN  IF Is("sidewalk", "both")
            THEN /\ Count(lanes, "SIDEWALK") = 2
                 /\ lanes[1] = SidewalkBackward
                 /\ lanes[Len(lanes)] = SidewalkForward
            ELSE Count(lanes, "SIDEWALK") = 0

C6_Witness ==
    /\ Returned /\ Is("sidewalk", "both") /\ Len(last.value) > 2

C6_WitnessLeft ==
    /\ Returned /\ Is("sidewalk", "left") /\ Len(last.value) > 0

\* C7: a returned sequence has one CYCLEWAY lane, FORWARD, when
\* cycleway:left = "lane" and none otherwise; the result is the same
\* whatever cycleway:right is, absent included.
C7_Cycleways ==
    Returned =>
        LET lanes == last.value
        IN  /\ Count(lanes, "CYCLEWAY") = IF Is("cycleway:left", "lane") THEN 1 ELSE 0
            /\ \A i \in Positions(lanes, "CYCLEWAY") : lanes[i].direction = "FORWARD"
            /\ \A r \in Optional("cycleway:right", CyclewayRightTexts \cup CyclewayLeftTexts) :
                  parse(r @@ Drop(tags, "cycleway:right")) = last

C7_Witness ==
    /\ Returned /\ Is("cycleway:left", "lane") /\ Is("cycleway:right", "lane")
    /\ Count(last.value, "CYCLEWAY") = 1

C7_WitnessTrack ==
    /\ Returned /\ Is("cycleway:left", "track") /\ Is("cycleway:right", "lane")
    /\ Len(last.value) > 0

\* C8: after any number of parse invocations the tags are those the Road
\* was constructed with and the latest outcome equals the first.
C8_Idempotent ==
    Called => (tags = original /\ last = first)

C8_Witness ==
    /\ calls >= 2 /\ last.kind = "return" /\ Len(last.value) > 0

C8_WitnessRaise ==
    /\ calls >= 2 /\ last.kind = "raise"

\* C9: from_structure returns the Lane of the corresponding members when
\* type is one of "sidewalk", "cycleway", "driveway" and direction one of
\* "forward", "backward"; otherwise it raises the invalid-tag-value error
\* (the ValueError of the enumeration lookup) and returns no Lane.
C9_FromStructure ==
    built # NotCalled =>
        LET t == structure["type"]
            d == structure["direction"]
        IN  IF t \in {"sidewalk", "cycleway", "driveway"} /\ d \in {"forward", "backward"}
            THEN built = Return(Lane(
                     CASE t = "sidewalk" -> "SIDEWALK"
                       [] t = "cycleway" -> "CYCLEWAY"
                       [] t = "driveway" -> "DRIVEWAY",
                     CASE d = "forward" -> "FORWARD"
                       [] d = "backward" -> "BACKWARD"))
            ELSE /\ built.kind = "raise"
                 /\ built.exc = "ValueError"
                 /\ built.at \in {"LaneType", "Direction"}

C9_Witness ==
    /\ structure["type"] = "cycleway" /\ structure["direction"] = "forward"
    /\ built = Return(CyclewayForward)

C9_WitnessRaise ==
    /\ structure["type"] = "driveway" /\ structure["direction"] = "both"
    /\ built.kind = "raise"

\* C10: every lane of a returned sequence is SIDEWALK/BACKWARD,
\* SIDEWALK/FORWARD, CYCLEWAY/FORWARD or DRIVEWAY/FORWARD; at most one lane
\* is BACKWARD, and it is a SIDEWALK in the first position.
C10_LaneCombinations ==
    Returned =>
        LET lanes == last.value
            back == {i \in 1..Len(lanes) : lanes[i].direction = "BACKWARD"}
        IN  /\ \A i \in 1..Len(lanes) :
                  lanes[i] \in {SidewalkBackward, SidewalkForward,
                                CyclewayForward, DrivewayForward}
            /\ Cardinality(back) <= 1
            /\ \A i \in back : i = 1 /\ lanes[i].type_ = "SIDEWALK"

C10_Witness ==
    /\ Returned /\ Len(last.value) >= 4
    /\ last.value[1].direction = "BACKWARD"

====
